---- MODULE Spec2Model ----
(***************************************************************************)
(* The news ingestion pipeline of src/both.js: the two trigger endpoints,  *)
(* fetchAndProcessNews, processNews and summarizeContent, against the      *)
(* blogs and blog_categories tables.                                        *)
(*                                                                         *)
(* Every await of the source is a suspend point.  run[r].pc names what the *)
(* request in slot r is waiting for, and each action is the continuation   *)
(* that runs when that wait is over, up to the next await.                 *)
(***************************************************************************)
EXTENDS Integers, Sequences, FiniteSets, TLC

VARIABLES blogs, blog_categories, run, obs,
          rss_feeds, web, now, callers, media

vars == <<blogs, blog_categories, run, obs, rss_feeds, web, now, callers, media>>

\* what no step of a run changes: the rss_feeds table, the documents the feed
\* URLs serve, the day the clock of the process reads, whether the callers
\* serialize their requests, and the feed item given to extractMediaUrl
env == <<rss_feeds, web, now, callers, media>>

----------------------------------------------------------------------------
(* Bounds of the model.                                                    *)

\* request slots of the express server
NumRuns == 2
\* rows the blogs table can hold
MaxRows == 4
\* distinct article links the feeds can carry
NumLinks == 3
MaxMedia == 2

Runs == 1..NumRuns

----------------------------------------------------------------------------
(* Values.                                                                 *)

\* JavaScript null: the failure signal of summarizeContent and processNews
Null == -1
\* JavaScript undefined: a response without choices[0].message.content
Undefined == -2

\* A text is the number of its words once trimmed: 0 is the empty string.
EnoughWords == 50
ShortWords == EnoughWords - 1
SummaryResponses == {Undefined, 0, ShortWords, EnoughWords}
\* the request to a service fails: the awaited promise rejects
Failed == -3

\* Calendar days <<year, month, day>>; the clock of the process starts at Today.
Today == <<2025, 3, 14>>
Stale == <<2025, 3, 13>>
NoDate == <<>>
\* getDate(), getMonth(), getFullYear() of an unparsable date
NaN == 0
InvalidDate == <<NaN, NaN, NaN>>
Tomorrow == <<2025, 3, 15>>
OtherMonth == <<2025, 4, 14>>
OtherYear == <<2024, 3, 14>>

Min(a, b) == IF a < b THEN a ELSE b

----------------------------------------------------------------------------
(* The world outside the process.                                          *)

\* table rss_feeds
RssFeedsTable ==
    << [rss_url |-> "u1", category_id |-> 5, status |-> 1],
       [rss_url |-> "u2", category_id |-> 0, status |-> 1],
       [rss_url |-> "u3", category_id |-> 7, status |-> 0] >>

FeedItem(l, d) == [link |-> l, pubDate |-> d]

\* documents a feed URL can serve: nothing, two of today's items with
\* neighbouring links, or a stale item and one without a pubDate
FeedDocs ==
    { << >>, << FeedItem(2, Stale), FeedItem(NumLinks, NoDate) >> }
    \cup { << FeedItem(l, Today), FeedItem((l % NumLinks) + 1, Today) >> :
             l \in 1..NumLinks }

\* a table with one active feed, and documents whose items differ from the
\* day of the clock in the day, the month or the year, or have no valid date
OneFeedTable == << [rss_url |-> "u1", category_id |-> 5, status |-> 1] >>

DatedDocs ==
    { << FeedItem(1, OtherMonth), FeedItem(2, NoDate) >>,
      << FeedItem(1, OtherYear), FeedItem(2, Today) >>,
      << FeedItem(1, InvalidDate), FeedItem(2, Tomorrow) >> }

\* three active feeds with a category each, and feeds that all hold items
ThreeFeedsTable ==
    << [rss_url |-> "u1", category_id |-> 5, status |-> 1],
       [rss_url |-> "u2", category_id |-> 0, status |-> 1],
       [rss_url |-> "u3", category_id |-> 7, status |-> 1] >>

FullDocs ==
    { << FeedItem(1, Today) >>,
      << FeedItem(2, Today), FeedItem(3, Stale) >> }

\* A media entry of a feed item: dollar says whether the parser kept its
\* attributes under $ (or flattened them), type is a MIME type as
\* <<type, subtype>> or << >> when the entry has none, url is "" when it has
\* none.
Svg == <<"image", "svg+xml">>
Jpeg == <<"image", "jpeg">>
Mp4 == <<"video", "mp4">>

MediaEntry(k) ==
    [dollar : BOOLEAN, medium : {"image", "none"}, type : {Svg, Jpeg, Mp4, << >>},
     url : {"content" \o ToString(k)}]

\* the arrays of up to MaxMedia entries, entry k with the url of its place
RECURSIVE MediaArrays(_)
MediaArrays(n) ==
    IF n = 0 THEN { << >> }
    ELSE MediaArrays(n - 1)
           \cup { Append(a, e) : a \in {b \in MediaArrays(n - 1) : Len(b) = n - 1},
                                 e \in MediaEntry(n) }

\* what a field of the item holds: nothing, one object or an array
Absent == [kind |-> "absent", entries |-> << >>]

Enclosures ==
    { Absent,
      [kind |-> "object", entries |-> << [dollar |-> TRUE, medium |-> "none", type |-> Jpeg, url |-> "enclosure"] >>],
      [kind |-> "array", entries |-> << [dollar |-> TRUE, medium |-> "none", type |-> Mp4, url |-> "enclosure"] >>] }

Thumbnails ==
    { Absent,
      [kind |-> "object", entries |-> << [dollar |-> TRUE, medium |-> "none", type |-> << >>, url |-> "thumbnail"] >>] }

NestedContents ==
    { Absent,
      [kind |-> "array", entries |-> << [dollar |-> TRUE, medium |-> "none", type |-> Mp4, url |-> "nested"] >>] }

\* the feed items given to extractMediaUrl
MediaItems ==
    [mediaContent : {Absent} \cup { [kind |-> "array", entries |-> a] : a \in MediaArrays(MaxMedia) }
                     \cup { [kind |-> "object", entries |-> a] :
                               a \in {b \in MediaArrays(1) : Len(b) = 1} },
     nested : NestedContents,
     thumbnail : Thumbnails,
     enclosure : Enclosures]

----------------------------------------------------------------------------
(* Pure functions of the source.                                           *)

RECURSIVE SelectActive(_)
SelectActive(rows) ==
    IF rows = << >> THEN << >>
    ELSE IF Head(rows).status = 1
         THEN <<[rss_url |-> Head(rows).rss_url,
                 category_id |-> Head(rows).category_id]>>
              \o SelectActive(Tail(rows))
         ELSE SelectActive(Tail(rows))

\* the WHERE clause compares the wrong column
SelectByDescription(table, url) ==
    SelectSeq(table, LAMBDA row : row.description = url)

\* SELECT source_link FROM blogs WHERE source_link = ?
SelectBySourceLink(table, url) ==
    SelectSeq(table, LAMBDA row : row.source_link = url)

\* an off-by-one in the row count
isNewsProcessedMoreThanOne(rows) == Len(rows) > 1

isNewsProcessed(rows) == Len(rows) > 0

\* type.startsWith('image/') on a MIME type, false on no type
StartsWithImage(type) == type # << >> /\ type[1] = "image"

\* only the raster types would count as an image
IsImageMediaRaster(m) ==
    m.dollar /\ (m.medium = "image" \/ m.type = Jpeg)

\* the predicate of find, lines 78-79 and 99-100
IsImageMedia(m) ==
    m.dollar /\ (m.medium = "image" \/ StartsWithImage(m.type))

\* Array.prototype.find: the first entry that satisfies the predicate, or
\* << >> for undefined
Find(entries) ==
    LET hits == {k \in 1..Len(entries) : IsImageMedia(entries[k])} IN
    IF hits = {} THEN << >>
    ELSE << entries[CHOOSE k \in hits : \A j \in hits : k <= j] >>

\* Method 1, lines 72-93
MediaContentUrl(mediaContent) ==
    IF mediaContent.kind = "absent" THEN ""
    ELSE IF mediaContent.kind = "array"
    THEN LET imageMedia == Find(mediaContent.entries) IN
         IF imageMedia # << >> THEN imageMedia[1].url
         ELSE IF mediaContent.entries # << >> /\ mediaContent.entries[1].dollar
         THEN mediaContent.entries[1].url
         ELSE ""
    ELSE mediaContent.entries[1].url

\* Method 2, lines 96-106
NestedUrl(mediaContent) ==
    IF mediaContent.kind = "absent" THEN ""
    ELSE IF mediaContent.kind = "array"
    THEN LET found == Find(mediaContent.entries)
             m == IF found # << >> THEN found
                  ELSE SubSeq(mediaContent.entries, 1, 1)
         IN IF m # << >> /\ m[1].dollar THEN m[1].url ELSE ""
    ELSE IF mediaContent.entries[1].dollar THEN mediaContent.entries[1].url ELSE ""

\* Method 3, lines 109-116
ThumbnailUrl(thumbnail) ==
    IF thumbnail.kind = "absent" THEN "" ELSE thumbnail.entries[1].url

\* Method 4, lines 119-135
EnclosureUrl(enclosure) ==
    IF enclosure.kind = "absent" THEN ""
    ELSE IF enclosure.kind = "array"
    THEN LET hits == {k \in 1..Len(enclosure.entries) :
                        /\ enclosure.entries[k].dollar
                        /\ StartsWithImage(enclosure.entries[k].type)}
         IN IF hits = {} THEN ""
            ELSE enclosure.entries[CHOOSE k \in hits : \A j \in hits : k <= j].url
    ELSE IF StartsWithImage(enclosure.entries[1].type)
    THEN enclosure.entries[1].url
    ELSE ""

\* lines 68-138: each method is tried while imageUrl is still empty
extractMediaUrl(item) ==
    LET m1 == MediaContentUrl(item.mediaContent)
        m2 == IF m1 = "" THEN NestedUrl(item.nested) ELSE m1
        m3 == IF m2 = "" THEN ThumbnailUrl(item.thumbnail) ELSE m2
    IN IF m3 = "" THEN EnclosureUrl(item.enclosure) ELSE m3

\* the year is not compared
isNewsFromTodayMonthAndDay(pubDate) ==
    IF pubDate = NoDate THEN FALSE
    ELSE pubDate[3] = now[3] /\ pubDate[2] = now[2]

\* a === b on numbers: NaN equals nothing
StrictEq(a, b) == a # NaN /\ b # NaN /\ a = b

isNewsFromToday(pubDate) ==
    IF pubDate = NoDate THEN FALSE
    ELSE /\ StrictEq(pubDate[3], now[3])
         /\ StrictEq(pubDate[2], now[2])
         /\ StrictEq(pubDate[1], now[1])

\* truthiness of a summary value
Truthy(s) == s \notin {Null, Undefined, 0}

\* s.split(/\s+/).length: the empty string splits into one empty piece
SplitLength(s) == IF s = 0 THEN 1 ELSE s

WordCount(summary) == IF Truthy(summary) THEN SplitLength(summary) ELSE 0

\* no bound on the retries
ShouldRetryForever(summary, wordCount, retryCount) ==
    Truthy(summary) /\ wordCount < EnoughWords

\* one retry fewer
ShouldRetryThrice(summary, wordCount, retryCount) ==
    Truthy(summary) /\ wordCount < EnoughWords /\ retryCount < 3

ShouldRetry(summary, wordCount, retryCount) ==
    Truthy(summary) /\ wordCount < EnoughWords /\ retryCount < 4

PromptFor(retryCount) == IF retryCount = 0 THEN "primary" ELSE "escalated"

\* a catch block that tries again
SummarizeCatchRetrying(retryCount) == [retry |-> retryCount < 4, value |-> Null]

\* the catch block of summarizeContent
SummarizeCatch(retryCount) == [retry |-> FALSE, value |-> Null]

\* an acceptance test without the length check
RejectsOnlyEmpty(summary) == ~Truthy(summary)

\* the acceptance test of processNews on the summarizer's result
Rejects(summary) == ~Truthy(summary) \/ SplitLength(summary) < EnoughWords

\* a catch block that throws the error on
ProcessNewsCatchRethrowing(err) == [rethrow |-> TRUE, value |-> Null]

\* the catch block of processNews
ProcessNewsCatch(err) == [rethrow |-> FALSE, value |-> Null]

ItemsToProcess(n) == Min(3, n)

\* a loop that only ends with the list
LoopCondUncapped(i, n, processedCount, itemsToProcess) == i < n

LoopCond(i, n, processedCount, itemsToProcess) ==
    i < n /\ processedCount < itemsToProcess

\* every attempt is counted
CountsAsProcessedAlways(result) == TRUE

CountsAsProcessed(result) == result # Null

\* no delay at all
NeedsDelayNever(processedCount, itemsToProcess) == FALSE

\* a delay after every success
NeedsDelayAlways(processedCount, itemsToProcess) == TRUE

NeedsDelay(processedCount, itemsToProcess) == processedCount < itemsToProcess

\* newsLinks.push for every item of a parsed feed
RECURSIVE PushItems(_, _)
PushItems(items, feed) ==
    IF items = << >> THEN << >>
    ELSE <<[link |-> Head(items).link,
            categoryId |-> feed.category_id,
            pubDate |-> IF Head(items).pubDate = NoDate THEN now
                        ELSE Head(items).pubDate]>>
         \o PushItems(Tail(items), feed)

----------------------------------------------------------------------------
(* State.                                                                  *)

InitRun ==
    [pc |-> "idle", db |-> "none", rssFeeds |-> << >>, f |-> 0,
     newsLinks |-> << >>, itemsToProcess |-> 0, processedCount |-> 0, i |-> 0,
     retryCount |-> 0, prompt |-> "none", summary |-> Null,
     insertedBlogId |-> 0, result |-> Null, thrown |-> "none",
     retval |-> Null, status |-> 0, ends |-> 0]

\* What an observer of slot r has seen: of the candidate being attempted
\* (dup .. fault) and of the whole run (tried .. delays).
InitObs ==
    [dup |-> FALSE, stale |-> FALSE, extCalls |-> 0, sumLog |-> << >>,
     posts |-> 0, links |-> 0, fault |-> "none",
     tried |-> << >>, survivors |-> 0, succ |-> 0, inserted |-> 0,
     delays |-> 0, warm |-> FALSE]

\* no feed item is under examination
NoMedia == [item |-> << >>, imageUrl |-> "", done |-> TRUE]

\* the process has started; nothing is in the tables of posts
Started ==
    /\ blogs = << >>
    /\ blog_categories = {}
    /\ run = [r \in Runs |-> InitRun]
    /\ obs = [r \in Runs |-> InitObs]
    /\ now = Today

Init ==
    /\ Started
    /\ rss_feeds = RssFeedsTable
    /\ web = FeedDocs
    /\ callers = "serialized"
    /\ media = NoMedia

Candidate(rec) == rec.newsLinks[rec.i + 1]

Links(table) == {table[k].source_link : k \in 1..Len(table)}

\* the date is no date, or is another day than the one the clock reads
OffToday(pubDate) ==
    pubDate = NoDate \/ pubDate = InvalidDate \/ pubDate # now

Set(r, rec) == run' = [run EXCEPT ![r] = rec]
See(r, o) == obs' = [obs EXCEPT ![r] = o]

----------------------------------------------------------------------------
(* The head of the for loop of fetchAndProcessNews (line 305): either call *)
(* processNews for newsLinks[i], which issues the dedup query, or leave    *)
(* the try block, which issues db.end().                                   *)

\* db.end() would be called after a return only
FinallyOnReturn(rec) ==
    IF rec.thrown = "none"
    THEN [rec EXCEPT !.pc = "dbEnd", !.ends = @ + 1]
    ELSE [rec EXCEPT !.pc = "settled"]

\* the finally block of lines 317-320 is entered, after a return or a throw,
\* and calls db.end()
Finally(rec) == [rec EXCEPT !.pc = "dbEnd", !.ends = @ + 1]

LoopHead(rec) ==
    IF LoopCond(rec.i, Len(rec.newsLinks), rec.processedCount, rec.itemsToProcess)
    THEN [rec EXCEPT !.pc = "isNewsProcessed", !.retryCount = 0,
                     !.prompt = "none", !.summary = Null,
                     !.insertedBlogId = 0, !.result = Null]
    ELSE Finally([rec EXCEPT !.retval = rec.processedCount])

LoopHeadObs(rec, o) ==
    IF LoopCond(rec.i, Len(rec.newsLinks), rec.processedCount, rec.itemsToProcess)
    THEN [o EXCEPT !.dup = Candidate(rec).link \in Links(blogs),
                   !.stale = FALSE,
                   !.extCalls = 0, !.sumLog = << >>, !.posts = 0,
                   !.links = 0, !.fault = "none",
                   !.tried = Append(@, rec.i + 1)]
    ELSE o

\* the catch block of lines 292-294 would throw again
FeedCatchRethrowing(feed) == [rethrow |-> TRUE]

\* the catch block of lines 292-294 logs the error of the feed and goes on
FeedCatch(feed) == [rethrow |-> FALSE]

\* lines 298-304: the feeds are aggregated, the cap is fixed, the loop starts
StartLoop(rec) ==
    LoopHead([rec EXCEPT !.itemsToProcess = ItemsToProcess(Len(rec.newsLinks)),
                         !.processedCount = 0, !.i = 0])

\* processNews leaves through its catch block
Caught(r, what) ==
    LET c == ProcessNewsCatch(what) IN
    /\ IF c.rethrow
       THEN Set(r, Finally([run[r] EXCEPT !.thrown = what]))
       ELSE Set(r, [run[r] EXCEPT !.pc = "processed", !.result = c.value])
    /\ See(r, [obs[r] EXCEPT !.fault = what])

----------------------------------------------------------------------------
(* The trigger endpoints.                                                  *)

\* a request takes the first free slot; callers that serialize runs send it
\* only when no run is in flight
CanStart(r) ==
    /\ run[r].pc = "idle"
    /\ \A q \in Runs : q < r => run[q].pc # "idle"
    /\ callers = "serialized" => \A q \in Runs : run[q].pc = "idle"

ApiProcessNews(r) ==
    /\ CanStart(r)
    /\ \E keyMatches \in BOOLEAN :
         IF keyMatches
         THEN Set(r, [run[r] EXCEPT !.pc = "createDbConnection"])
         ELSE Set(r, [run[r] EXCEPT !.pc = "sent", !.status = 401])
    /\ UNCHANGED <<blogs, blog_categories, obs>>
    /\ UNCHANGED env

TestNewsProcessing(r) ==
    /\ CanStart(r)
    /\ Set(r, [run[r] EXCEPT !.pc = "createDbConnection"])
    /\ UNCHANGED <<blogs, blog_categories, obs>>
    /\ UNCHANGED env

\* fetchAndProcessNews has settled: the handler answers
Respond(r) ==
    /\ run[r].pc = "settled"
    /\ Set(r, [run[r] EXCEPT !.pc = "sent",
                             !.status = IF run[r].thrown = "none" THEN 200 ELSE 500])
    /\ UNCHANGED <<blogs, blog_categories, obs>>
    /\ UNCHANGED env

\* the response is out and the request is over
RequestDone(r) ==
    /\ run[r].pc = "sent"
    /\ Set(r, InitRun)
    /\ See(r, InitObs)
    /\ UNCHANGED <<blogs, blog_categories>>
    /\ UNCHANGED env

----------------------------------------------------------------------------
(* fetchAndProcessNews up to the loop.                                     *)

CreateDbConnection(r) ==
    /\ run[r].pc = "createDbConnection"
    /\ \/ Set(r, [run[r] EXCEPT !.pc = "fetchRSSFeeds", !.db = "open"])
       \/ Set(r, [run[r] EXCEPT !.pc = "settled", !.thrown = "createDbConnection"])
    /\ UNCHANGED <<blogs, blog_categories, obs>>
    /\ UNCHANGED env

FetchRSSFeeds(r) ==
    /\ run[r].pc = "fetchRSSFeeds"
    /\ \/ LET rows == SelectActive(rss_feeds)
               rec == [run[r] EXCEPT !.rssFeeds = rows, !.newsLinks = << >>, !.f = 0]
           IN IF rows = << >>
              THEN Set(r, StartLoop(rec)) /\ See(r, LoopHeadObs(StartLoop(rec), obs[r]))
              ELSE Set(r, [rec EXCEPT !.pc = "parseURL"]) /\ UNCHANGED obs
       \/ /\ Set(r, Finally([run[r] EXCEPT !.thrown = "fetchRSSFeeds"]))
          /\ UNCHANGED obs
    /\ UNCHANGED <<blogs, blog_categories>>
    /\ UNCHANGED env

\* parser.parseURL(feed.rss_url) is over for feed f+1: lines 277-296
ParseURL(r) ==
    /\ run[r].pc = "parseURL"
    /\ \E resolves \in BOOLEAN : \E parsed \in web :
         LET feed == run[r].rssFeeds[run[r].f + 1]
             pushed == IF ~resolves THEN run[r].newsLinks
                       ELSE run[r].newsLinks \o PushItems(parsed, feed)
             rec == [run[r] EXCEPT !.newsLinks = pushed, !.f = @ + 1]
         IN IF ~resolves /\ FeedCatch(feed).rethrow
            THEN /\ Set(r, Finally([run[r] EXCEPT !.thrown = "parseURL"]))
                 /\ UNCHANGED obs
            ELSE IF rec.f < Len(rec.rssFeeds)
            THEN Set(r, rec) /\ UNCHANGED obs
            ELSE Set(r, StartLoop(rec)) /\ See(r, LoopHeadObs(StartLoop(rec), obs[r]))
    /\ UNCHANGED <<blogs, blog_categories>>
    /\ UNCHANGED env

----------------------------------------------------------------------------
(* processNews, one action for each await: lines 199-268.                  *)

\* the dedup query is over: lines 201-217
IsNewsProcessed(r) ==
    /\ run[r].pc = "isNewsProcessed"
    /\ \/ LET rows == SelectBySourceLink(blogs, Candidate(run[r]).link)
              seen == [obs[r] EXCEPT !.stale = OffToday(Candidate(run[r]).pubDate)]
          IN
          IF isNewsProcessed(rows) \/ ~isNewsFromToday(Candidate(run[r]).pubDate)
          THEN /\ Set(r, [run[r] EXCEPT !.pc = "processed", !.result = Null])
               /\ See(r, seen)
          ELSE /\ Set(r, [run[r] EXCEPT !.pc = "diffbot"])
               /\ See(r, [seen EXCEPT !.survivors = @ + 1, !.extCalls = @ + 1])
       \/ Caught(r, "isNewsProcessed")
    /\ UNCHANGED <<blogs, blog_categories>>
    /\ UNCHANGED env

\* the extraction GET is over: lines 215-226, and summarizeContent up to its POST
Diffbot(r) ==
    /\ run[r].pc = "diffbot"
    /\ \/ \E hasText \in BOOLEAN :
            /\ IF hasText
               THEN Set(r, [run[r] EXCEPT !.pc = "openrouter", !.retryCount = 0,
                                         !.prompt = PromptFor(0)])
               ELSE Set(r, [run[r] EXCEPT !.pc = "processed", !.result = Null])
            /\ UNCHANGED obs
       \/ Caught(r, "diffbot")
    /\ UNCHANGED <<blogs, blog_categories>>
    /\ UNCHANGED env

\* the summarization POST is over: lines 182-195
Openrouter(r) ==
    /\ run[r].pc = "openrouter"
    /\ \E resp \in SummaryResponses \cup {Failed} :
         LET seen == [obs[r] EXCEPT !.sumLog = Append(@, resp),
                                    !.warm = @ \/ resp >= EnoughWords]
         IN
         IF resp = Failed
         THEN LET c == SummarizeCatch(run[r].retryCount) IN
              /\ IF c.retry
                 THEN Set(r, [run[r] EXCEPT !.retryCount = @ + 1,
                                           !.prompt = PromptFor(run[r].retryCount + 1)])
                 ELSE Set(r, [run[r] EXCEPT !.pc = "summarized", !.summary = c.value])
              /\ See(r, [seen EXCEPT !.fault = "openrouter"])
         ELSE /\ IF ShouldRetry(resp, WordCount(resp), run[r].retryCount)
                 THEN Set(r, [run[r] EXCEPT !.summary = resp, !.retryCount = @ + 1,
                                           !.prompt = PromptFor(run[r].retryCount + 1)])
                 ELSE Set(r, [run[r] EXCEPT !.pc = "summarized", !.summary = resp])
              /\ See(r, seen)
    /\ UNCHANGED <<blogs, blog_categories>>
    /\ UNCHANGED env

\* summarizeContent has returned to processNews: lines 226-248
Summarized(r) ==
    /\ run[r].pc = "summarized"
    /\ IF Rejects(run[r].summary)
       THEN Set(r, [run[r] EXCEPT !.pc = "processed", !.result = Null])
       ELSE Set(r, [run[r] EXCEPT !.pc = "insertBlog"])
    /\ UNCHANGED <<blogs, blog_categories, obs>>
    /\ UNCHANGED env

\* the INSERT INTO blogs is over: lines 238-262
InsertBlog(r) ==
    /\ run[r].pc = "insertBlog"
    /\ \/ /\ Len(blogs) < MaxRows
          /\ blogs' = Append(blogs, [source_link |-> Candidate(run[r]).link,
                                     description |-> run[r].summary])
          /\ LET insertedBlogId == Len(blogs) + 1 IN
             IF insertedBlogId # 0 /\ Candidate(run[r]).categoryId # 0
             THEN /\ Set(r, [run[r] EXCEPT !.pc = "insertCategory",
                                           !.insertedBlogId = insertedBlogId])
                  /\ See(r, [obs[r] EXCEPT !.posts = @ + 1, !.inserted = @ + 1])
             ELSE /\ Set(r, [run[r] EXCEPT !.pc = "processed",
                                           !.insertedBlogId = insertedBlogId,
                                           !.result = insertedBlogId])
                  /\ See(r, [obs[r] EXCEPT !.posts = @ + 1, !.inserted = @ + 1,
                                           !.succ = @ + 1])
          /\ UNCHANGED blog_categories
       \/ Caught(r, "insertBlog") /\ UNCHANGED <<blogs, blog_categories>>
    /\ UNCHANGED env

\* the INSERT INTO blog_categories is over: lines 255-262
InsertCategory(r) ==
    /\ run[r].pc = "insertCategory"
    /\ \/ /\ blog_categories' = blog_categories \cup
                 {[blog_id |-> run[r].insertedBlogId,
                   category_id |-> Candidate(run[r]).categoryId]}
          /\ Set(r, [run[r] EXCEPT !.pc = "processed",
                                   !.result = run[r].insertedBlogId])
          /\ See(r, [obs[r] EXCEPT !.links = @ + 1, !.succ = @ + 1])
       \/ Caught(r, "insertCategory") /\ UNCHANGED blog_categories
    /\ UNCHANGED blogs
    /\ UNCHANGED env

----------------------------------------------------------------------------
(* The loop of fetchAndProcessNews and its finally block: lines 305-320.   *)

\* processNews has returned to the loop: lines 306-313
Processed(r) ==
    /\ run[r].pc = "processed"
    /\ IF CountsAsProcessed(run[r].result)
       THEN LET rec == [run[r] EXCEPT !.processedCount = @ + 1] IN
            IF NeedsDelay(rec.processedCount, rec.itemsToProcess)
            THEN /\ Set(r, [rec EXCEPT !.pc = "delay"])
                 /\ See(r, [obs[r] EXCEPT !.delays = @ + 1])
            ELSE LET nxt == [rec EXCEPT !.i = @ + 1] IN
                 Set(r, LoopHead(nxt)) /\ See(r, LoopHeadObs(nxt, obs[r]))
       ELSE LET nxt == [run[r] EXCEPT !.i = @ + 1] IN
            Set(r, LoopHead(nxt)) /\ See(r, LoopHeadObs(nxt, obs[r]))
    /\ UNCHANGED <<blogs, blog_categories>>
    /\ UNCHANGED env

\* the 12 second timer has fired: line 310
Delay(r) ==
    /\ run[r].pc = "delay"
    /\ LET nxt == [run[r] EXCEPT !.i = @ + 1] IN
       Set(r, LoopHead(nxt)) /\ See(r, LoopHeadObs(nxt, [obs[r] EXCEPT !.warm = FALSE]))
    /\ UNCHANGED <<blogs, blog_categories>>
    /\ UNCHANGED env

\* db.end() of the finally block is over: lines 317-320
DbEnd(r) ==
    /\ run[r].pc = "dbEnd"
    /\ \/ Set(r, [run[r] EXCEPT !.pc = "settled", !.db = "closed"])
       \/ Set(r, [run[r] EXCEPT !.pc = "settled", !.thrown = "dbEnd"])
    /\ UNCHANGED <<blogs, blog_categories, obs>>
    /\ UNCHANGED env

----------------------------------------------------------------------------

Next ==
    \E r \in Runs :
        \/ ApiProcessNews(r)
        \/ TestNewsProcessing(r)
        \/ CreateDbConnection(r)
        \/ FetchRSSFeeds(r)
        \/ ParseURL(r)
        \/ IsNewsProcessed(r)
        \/ Diffbot(r)
        \/ Openrouter(r)
        \/ Summarized(r)
        \/ InsertBlog(r)
        \/ InsertCategory(r)
        \/ Processed(r)
        \/ Delay(r)
        \/ DbEnd(r)
        \/ Respond(r)
        \/ RequestDone(r)

Spec == Init /\ [][Next]_vars

----------------------------------------------------------------------------
(* The date filter against a clock that passes midnight.                   *)

InitDates ==
    /\ Started
    /\ rss_feeds = OneFeedTable
    /\ web = DatedDocs
    /\ callers = "serialized"
    /\ media = NoMedia

\* midnight passes: new Date() of line 57 reads the next day
DayPasses ==
    /\ now = Today
    /\ now' = Tomorrow
    /\ UNCHANGED <<blogs, blog_categories, run, obs, rss_feeds, web, callers, media>>

NextDates == Next \/ DayPasses

SpecDates == InitDates /\ [][NextDates]_vars

----------------------------------------------------------------------------
(* The aggregation over three feeds of which any may fail.                 *)

InitFeeds ==
    /\ Started
    /\ rss_feeds = ThreeFeedsTable
    /\ web = FullDocs
    /\ callers = "serialized"
    /\ media = NoMedia

SpecFeeds == InitFeeds /\ [][Next]_vars

----------------------------------------------------------------------------
(* Requests that arrive while a run is in flight.                          *)

\* one feed with one item of today and one of yesterday
OverlapDocs == { << FeedItem(1, Today), FeedItem(2, Stale) >> }

InitOverlap ==
    /\ Started
    /\ rss_feeds = OneFeedTable
    /\ web = OverlapDocs
    /\ callers = "overlapping"
    /\ media = NoMedia

SpecOverlap == InitOverlap /\ [][Next]_vars

----------------------------------------------------------------------------
(* Runs whose external calls all return or fail in the end.                *)

InitLive ==
    /\ Started
    /\ rss_feeds = OneFeedTable
    /\ web = FullDocs
    /\ callers = "serialized"
    /\ media = NoMedia

\* the steps of a run in flight: every promise it awaits settles
Settles(r) ==
    \/ CreateDbConnection(r)
    \/ FetchRSSFeeds(r)
    \/ ParseURL(r)
    \/ IsNewsProcessed(r)
    \/ Diffbot(r)
    \/ Openrouter(r)
    \/ Summarized(r)
    \/ InsertBlog(r)
    \/ InsertCategory(r)
    \/ Processed(r)
    \/ Delay(r)
    \/ DbEnd(r)

SpecLive == InitLive /\ [][Next]_vars /\ \A r \in Runs : WF_vars(Settles(r))

----------------------------------------------------------------------------
(* extractMediaUrl on the items a parser may hand over.                    *)

InitMedia ==
    /\ Started
    /\ rss_feeds = RssFeedsTable
    /\ web = FeedDocs
    /\ callers = "serialized"
    /\ media \in [item : MediaItems, imageUrl : {""}, done : {FALSE}]

ExtractMediaUrl ==
    /\ ~media.done
    /\ media' = [media EXCEPT !.imageUrl = extractMediaUrl(media.item), !.done = TRUE]
    /\ UNCHANGED <<blogs, blog_categories, run, obs, rss_feeds, web, now, callers>>

NextMedia == ExtractMediaUrl

SpecMedia == InitMedia /\ [][NextMedia]_vars

----------------------------------------------------------------------------
(* Properties.                                                             *)

InFlight == {"isNewsProcessed", "diffbot", "openrouter", "insertBlog", "insertCategory"}
AfterLoop == {"dbEnd", "settled", "sent"}

\* C1: no two rows of blogs share a source_link, whatever the feeds hold and
\* however many serialized runs there were.
C1_UniqueSourceLink ==
    \A a, b \in 1..Len(blogs) :
        a # b => blogs[a].source_link # blogs[b].source_link

\* a candidate is skipped because this very run has inserted its link
C1_Witness ==
    \E r \in Runs :
        /\ run[r].pc = "processed" /\ obs[r].dup /\ obs[r].fault = "none"
        /\ obs[r].inserted >= 1
        /\ blogs[Len(blogs)].source_link = Candidate(run[r]).link

\* C2: for a candidate whose link is a source_link of blogs when processNews
\* is called, no extraction call, no summarization call and no insert is made.
C2_NoCallsForProcessed ==
    \A r \in Runs :
        obs[r].dup =>
            /\ obs[r].extCalls = 0 /\ obs[r].sumLog = << >>
            /\ obs[r].posts = 0 /\ obs[r].links = 0
            /\ run[r].pc \notin {"diffbot", "openrouter", "summarized",
                                  "insertBlog", "insertCategory", "delay"}

\* a later run skips a candidate that an earlier run has inserted
C2_Witness ==
    \E r \in Runs :
        /\ run[r].pc = "processed" /\ obs[r].dup /\ obs[r].fault = "none"
        /\ obs[r].inserted = 0 /\ run[r].result = Null

\* C3: processedCount never exceeds min(3, candidates that passed the filter),
\* and once it is 3 nothing more is attempted: the run is at db.end() or later.
C3_Cap ==
    \A r \in Runs :
        /\ run[r].processedCount <= Min(3, obs[r].survivors)
        /\ run[r].processedCount = 3 => run[r].pc \in AfterLoop

\* 3 successes, and a candidate of the list that was never attempted
C3_Witness ==
    \E r \in Runs :
        /\ run[r].pc = "settled" /\ run[r].processedCount = 3
        /\ Len(obs[r].tried) < Len(run[r].newsLinks)

\* C4: candidates are attempted in aggregation order, each at most once; only
\* successes take a slot; a run that ends with fewer than 3 successes has
\* attempted every candidate, and no run has more than 3.
C4_Walk ==
    \A r \in Runs :
        /\ obs[r].tried = [k \in 1..Len(obs[r].tried) |-> k]
        /\ Len(obs[r].tried) \in {run[r].i, run[r].i + 1}
        /\ run[r].processedCount <= obs[r].succ
        /\ obs[r].succ <= 3
        /\ (run[r].pc \in AfterLoop /\ run[r].thrown \in {"none", "dbEnd"}) =>
               /\ run[r].processedCount = obs[r].succ
               /\ obs[r].succ < 3 => Len(obs[r].tried) = Len(run[r].newsLinks)

\* 3 successes although one of the first 4 candidates was no success
C4_Witness ==
    \E r \in Runs :
        /\ run[r].pc = "settled" /\ obs[r].succ = 3
        /\ Len(obs[r].tried) = 4

\* C5 as stated: a run with n >= 1 inserted posts has exactly n-1 delays.
C5_DelaysAsStated ==
    \A r \in Runs :
        (run[r].pc = "settled" /\ run[r].thrown = "none" /\ obs[r].inserted >= 1)
            => obs[r].delays = obs[r].inserted - 1

\* C5, amended: a delay follows a recorded success exactly when processedCount
\* is then still below itemsToProcess, so a run with n recorded successes has
\* n delays, or n-1 if n reached itemsToProcess; no delay follows a failure.
C5_Delays ==
    \A r \in Runs :
        /\ obs[r].delays =
              IF run[r].processedCount < run[r].itemsToProcess
                 \/ run[r].processedCount = 0
              THEN run[r].processedCount
              ELSE run[r].processedCount - 1
        /\ run[r].pc = "delay" => run[r].result # Null

\* a run whose only success was followed by a delay
C5_Witness ==
    \E r \in Runs :
        /\ run[r].pc = "settled" /\ run[r].thrown = "none"
        /\ obs[r].succ = 1 /\ obs[r].inserted = 1 /\ obs[r].delays = 1

CarriesText(resp) == resp \notin {Failed, Undefined, 0}
AllCarryText(log) == \A k \in 1..Len(log) : CarriesText(log[k])

\* C6: when every response carries text, summarizeContent returns after
\* min(5, k) calls, k the first response of at least 50 words, with the text
\* of its last call; 5 short texts make processNews skip the candidate.
C6_Calls ==
    \A r \in Runs :
        LET log == obs[r].sumLog IN
        /\ (run[r].pc = "openrouter" /\ AllCarryText(log)) =>
               /\ Len(log) <= 4
               /\ \A k \in 1..Len(log) : log[k] < 50
        /\ (run[r].pc = "summarized" /\ AllCarryText(log)) =>
               /\ Len(log) \in 1..5
               /\ \A k \in 1..(Len(log) - 1) : log[k] < 50
               /\ log[Len(log)] < 50 => Len(log) = 5
               /\ run[r].summary = log[Len(log)]
        /\ (run[r].pc = "processed" /\ Len(log) = 5 /\ log[5] = ShortWords) =>
               run[r].result = Null /\ obs[r].posts = 0

\* three short texts, then one of 50 words: returned after 4 calls
C6_Witness ==
    \E r \in Runs :
        /\ run[r].pc = "summarized"
        /\ obs[r].sumLog = <<ShortWords, ShortWords, ShortWords, EnoughWords>>
        /\ run[r].summary = EnoughWords

\* C7 as stated: a response of fewer than 50 words, an empty or missing text
\* counting as 0 words, is returned only by the attempt with counter 4.
C7_RetryWheneverShort ==
    \A r \in Runs :
        (run[r].pc = "summarized" /\ obs[r].fault = "none"
            /\ WordCount(run[r].summary) < 50)
            => run[r].retryCount = 4

\* C8: every row of blogs has a description of at least 50 words.
C8_Description ==
    \A k \in 1..Len(blogs) : blogs[k].description >= 50

\* a post inserted with the text of the 5th summarization call
C8_Witness ==
    \E r \in Runs :
        /\ run[r].pc = "processed" /\ run[r].result # Null
        /\ Len(obs[r].sumLog) = 5
        /\ blogs[Len(blogs)].source_link = Candidate(run[r]).link

C10_Inv ==
    \A r \in Runs :
        /\ run[r].thrown \in {"none", "createDbConnection", "fetchRSSFeeds", "dbEnd"}
        /\ (run[r].pc = "settled" /\ run[r].thrown = "none") =>
               run[r].retval = run[r].processedCount /\ run[r].retval >= 0

C10_Step ==
    \A r \in Runs :
        (run[r].pc = "processed" /\ obs[r].fault # "none" /\ run'[r] # run[r]) =>
            /\ run'[r].processedCount = run[r].processedCount
            /\ run'[r].itemsToProcess = run[r].itemsToProcess
            /\ run'[r].thrown = "none"
            /\ run'[r].i = run[r].i + 1
            /\ run'[r].pc =
                  IF run[r].i + 1 < Len(run[r].newsLinks)
                  THEN "isNewsProcessed" ELSE "dbEnd"

\* C10: no error of a candidate aborts the run (C10_Inv in every state), and
\* the step after a failed candidate is the walk to the next one (C10_Step).
C10_NeverAborts == []C10_Inv /\ [][C10_Step]_vars

\* a run returns a count of 1 or more although its last candidate failed
C10_Witness ==
    \E r \in Runs :
        /\ run[r].pc = "settled" /\ run[r].thrown = "none"
        /\ obs[r].fault # "none" /\ run[r].retval >= 1

\* C11 as stated: a blog_categories row exists exactly for a candidate whose
\* post was inserted with an id and that has a categoryId, it names that id and
\* that categoryId, and no blog_categories row is without its post.
C11_LinkIffPost ==
    /\ \A c \in blog_categories : c.blog_id \in 1..Len(blogs)
    /\ \A r \in Runs :
          run[r].pc = "processed" =>
              /\ obs[r].links = 1 <=>
                     (obs[r].posts = 1 /\ Candidate(run[r]).categoryId # 0)
              /\ obs[r].links = 1 =>
                     [blog_id |-> run[r].insertedBlogId,
                      category_id |-> Candidate(run[r]).categoryId]
                         \in blog_categories

\* C12 as stated: the count fetchAndProcessNews returns is the number of posts
\* the run has inserted.
C12_CountIsInsertions ==
    \A r \in Runs :
        (run[r].pc = "settled" /\ run[r].thrown = "none") =>
            run[r].retval = obs[r].inserted

\* C13: a candidate whose pubDate is not on the day the clock reads when it is
\* filtered (day, month and year compared), or is no valid date, gets no
\* extraction call, no summarization call and no post; no candidate is without
\* a pubDate: the aggregator gives the day of the clock to an item without one.
C13_StaleRejected ==
    \A r \in Runs :
        /\ obs[r].stale =>
               /\ obs[r].extCalls = 0 /\ obs[r].sumLog = << >>
               /\ obs[r].posts = 0 /\ obs[r].links = 0
               /\ run[r].pc \notin {"diffbot", "openrouter", "summarized",
                                     "insertBlog", "insertCategory", "delay"}
        /\ \A k \in 1..Len(run[r].newsLinks) :
               LET d == run[r].newsLinks[k].pubDate IN
               /\ d # NoDate
               /\ d \in {Today, Tomorrow}
                     \/ \E doc \in web : \E j \in 1..Len(doc) : doc[j].pubDate = d

\* a candidate of the same day and month of another year is rejected
C13_Witness ==
    \E r \in Runs :
        /\ run[r].pc = "processed" /\ obs[r].stale /\ ~obs[r].dup
        /\ obs[r].fault = "none" /\ run[r].result = Null
        /\ Candidate(run[r]).pubDate[3] = now[3]
        /\ Candidate(run[r]).pubDate[2] = now[2]
        /\ Candidate(run[r]).pubDate[1] # now[1]

\* the position in rssFeeds of the feed with a category
FeedOf(rec, categoryId) ==
    CHOOSE k \in 1..Len(rec.rssFeeds) : rec.rssFeeds[k].category_id = categoryId

C14_Inv ==
    \A r \in Runs :
        /\ (run[r].pc \in InFlight \cup {"summarized", "processed", "delay"}) =>
               run[r].f = Len(run[r].rssFeeds) /\ run[r].thrown = "none"
        /\ run[r].thrown # "parseURL"
        /\ \A k \in 1..Len(run[r].newsLinks) :
               /\ \E j \in 1..Len(run[r].rssFeeds) :
                     run[r].rssFeeds[j].category_id = run[r].newsLinks[k].categoryId
               /\ \A j \in 1..(k - 1) :
                     FeedOf(run[r], run[r].newsLinks[j].categoryId)
                        <= FeedOf(run[r], run[r].newsLinks[k].categoryId)

C14_Step ==
    \A r \in Runs :
        (run[r].pc = "parseURL" /\ run'[r] # run[r]) =>
            LET old == run[r].newsLinks
                new == run'[r].newsLinks
                feed == run[r].rssFeeds[run[r].f + 1]
            IN
            /\ run'[r].f = run[r].f + 1
            /\ run'[r].thrown = "none"
            /\ run'[r].pc = "parseURL" <=> run'[r].f < Len(run[r].rssFeeds)
            /\ run'[r].pc # "parseURL" =>
                   IF new = << >> THEN run'[r].pc = "dbEnd" /\ run'[r].retval = 0
                   ELSE run'[r].pc = "isNewsProcessed" /\ run'[r].i = 0
            /\ Len(new) >= Len(old) /\ SubSeq(new, 1, Len(old)) = old
            /\ \/ new = old
               \/ \E doc \in web :
                     /\ Len(new) = Len(old) + Len(doc)
                     /\ \A k \in 1..Len(doc) :
                           /\ new[Len(old) + k].link = doc[k].link
                           /\ new[Len(old) + k].categoryId = feed.category_id

\* C14: the failure of a feed never aborts the aggregation: after every feed,
\* failed or not, the next one is fetched, the candidates are the items of the
\* feeds that were read, in the order of the feeds and of their items, each
\* with the category of its own feed, and the run goes on to its loop.
C14_FeedFailureSkipped == []C14_Inv /\ [][C14_Step]_vars

\* the second of three feeds failed, and the loop runs over the other two
C14_Witness ==
    \E r \in Runs :
        /\ run[r].pc = "isNewsProcessed" /\ run[r].f = 3
        /\ Len(run[r].newsLinks) = 3
        /\ run[r].newsLinks[1].categoryId = 5
        /\ run[r].newsLinks[2].categoryId = 7
        /\ run[r].newsLinks[3].categoryId = 7

Statements == {"fetchRSSFeeds", "isNewsProcessed", "insertBlog", "insertCategory"}

\* C15: a run that acquired the pool calls db.end() exactly once before it
\* returns or throws, after a normal completion as after an error, and has no
\* statement in flight, and issues none, once db.end() was called.
C15_ClosedOnce ==
    \A r \in Runs :
        /\ run[r].ends <= 1
        /\ run[r].pc = "dbEnd" => run[r].ends = 1 /\ run[r].db = "open"
        /\ (run[r].pc \in {"settled", "sent"} /\ run[r].db # "none") =>
               /\ run[r].ends = 1
               /\ run[r].db = "closed" \/ run[r].thrown = "dbEnd"
        /\ (run[r].pc \in Statements \cup {"parseURL", "diffbot", "openrouter",
                                             "summarized", "processed", "delay"}) =>
               run[r].ends = 0 /\ run[r].db = "open"
        /\ run[r].db = "closed" => run[r].pc \in {"settled", "sent"}

\* the feed sources could not be loaded, and the pool is closed
C15_Witness ==
    \E r \in Runs :
        /\ run[r].pc = "settled" /\ run[r].thrown = "fetchRSSFeeds"
        /\ run[r].ends = 1 /\ run[r].db = "closed"

\* a media-content array with an svg entry first and a jpeg entry after it
SvgThenJpeg(item) ==
    /\ item.mediaContent.kind = "array"
    /\ Len(item.mediaContent.entries) >= 2
    /\ item.mediaContent.entries[1].type = Svg
    /\ item.mediaContent.entries[2].type = Jpeg

\* C16 as stated: with an svg entry first and a jpeg entry after it,
\* extractMediaUrl returns the url of the jpeg entry.
C16_ReturnsJpeg ==
    (media.done /\ SvgThenJpeg(media.item)) =>
        media.imageUrl = media.item.mediaContent.entries[2].url

\* C16 as the code has it: of a media-content array, extractMediaUrl returns
\* the url of the first entry with attributes whose medium is image or whose
\* MIME type is of image/, svg included: with an svg entry first and a jpeg
\* entry after it, the url of the svg entry.
C16_ReturnsFirstImage ==
    (media.done /\ media.item.mediaContent.kind = "array") =>
        LET entries == media.item.mediaContent.entries IN
        /\ \A k \in 1..Len(entries) :
              ( /\ entries[k].dollar
                /\ entries[k].medium = "image" \/ entries[k].type \in {Svg, Jpeg}
                /\ \A j \in 1..(k - 1) :
                      ~(entries[j].dollar
                          /\ (entries[j].medium = "image" \/ entries[j].type \in {Svg, Jpeg})) )
              => media.imageUrl = entries[k].url
        /\ (SvgThenJpeg(media.item) /\ entries[1].dollar) =>
              media.imageUrl = entries[1].url

C16_Witness ==
    /\ media.done /\ SvgThenJpeg(media.item)
    /\ media.item.mediaContent.entries[1].dollar
    /\ media.item.mediaContent.entries[2].dollar
    /\ media.imageUrl = media.item.mediaContent.entries[1].url
    /\ media.imageUrl # media.item.mediaContent.entries[2].url

C17_Step ==
    \A r \in Runs :
        ( /\ Len(obs'[r].tried) > Len(obs[r].tried)
          /\ obs[r].tried # << >>
          /\ run[r].result # Null )
        => /\ run[r].pc = "delay"
           /\ run'[r].pc = "isNewsProcessed"

\* C17: after a success that the run recorded, the next candidate's attempt,
\* from its dedup query on, begins only with the step that ends the 12 second
\* delay; so between two recorded successes of a run lies a full delay.
C17_DelayBeforeNextAttempt == [][C17_Step]_vars

\* a second success of a run, after the delay that followed the first
C17_Witness ==
    \E r \in Runs :
        /\ run[r].pc = "processed" /\ run[r].result # Null
        /\ obs[r].inserted = 2 /\ obs[r].delays = 1
        /\ Len(obs[r].tried) >= 2

C18_Step ==
    \A r \in Runs :
        ( /\ run[r].pc = "openrouter"
          /\ Len(obs'[r].sumLog) > Len(obs[r].sumLog)
          /\ obs'[r].sumLog[Len(obs'[r].sumLog)] >= EnoughWords )
        => ~obs[r].warm

\* C18 as stated: when a call to the summarization service returns a text of
\* at least 50 words, no earlier call of the run has done so since the last
\* 12 second delay of the run (warm), whether or not the inserts that
\* followed the earlier call succeeded.
C18_DelayBetweenSummaries == [][C18_Step]_vars

\* C19 as stated: also when the runs of two requests interleave at their
\* suspend points, no link is in two rows of blogs, and no two runs have both
\* inserted the link that each found unprocessed.
C19_UniqueUnderOverlap ==
    /\ \A j, k \in 1..Len(blogs) :
          j # k => blogs[j].source_link # blogs[k].source_link
    /\ \A r, q \in Runs :
          ( /\ r # q
            /\ run[r].pc \in {"insertCategory", "processed"} /\ obs[r].posts = 1
            /\ run[q].pc \in {"insertCategory", "processed"} /\ obs[q].posts = 1 )
          => Candidate(run[r]).link # Candidate(run[q]).link

C20_Inv ==
    \A r \in Runs :
        /\ run[r].retryCount <= 4
        /\ Len(obs[r].sumLog) <= 5
        /\ \A j, k \in 1..Len(obs[r].tried) :
              j # k => obs[r].tried[j] # obs[r].tried[k]
        /\ run[r].pc = "settled" =>
              \/ run[r].thrown = "none" /\ run[r].retval \in 0..3
              \/ run[r].thrown \in {"createDbConnection", "fetchRSSFeeds", "dbEnd"}

\* C20: when every awaited call settles, every run that started settles:
\* fetchAndProcessNews returns a count or throws a run-level error; on the
\* way summarizeContent makes at most 5 calls for a candidate with retryCount
\* never above 4, and no candidate is attempted twice in a run.
C20_Terminates ==
    /\ []C20_Inv
    /\ \A r \in Runs : (run[r].pc = "createDbConnection") ~> (run[r].pc = "settled")

\* a candidate of a run has used up its five summarization calls
C20_Witness ==
    \E r \in Runs :
        /\ run[r].pc = "settled" /\ run[r].thrown = "none"
        /\ Len(obs[r].sumLog) = 5 /\ run[r].retryCount = 4
        /\ Len(obs[r].tried) >= 1

====
